---- MODULE Spec2Model ----
(***************************************************************************)
(* DBInterface: the sqlalchemy wrapper of pymlops.                         *)
(*                                                                         *)
(* The repository holds the class twice, src/pymlops/db/interface.py and   *)
(* the older src/db/interface.py; `impl` says which of the two the         *)
(* instance was built from.  The store is the embedded single-file dialect *)
(* (sqlite through pysqlite, SQLAlchemy 2.0: the code calls                *)
(* Connection.commit(), so every execute autobegins a transaction), with   *)
(* one table  users(id INTEGER PRIMARY KEY, name, age CHECK(age >= 1)).    *)
(* A column value is <<>> (NULL) or <<v>>.                                 *)
(***************************************************************************)
EXTENDS Integers, Sequences, FiniteSets, TLC

VARIABLES impl, table, work, saTxn, dbTxn, pool, closed, last, ins, thr

vars == <<impl, table, work, saTxn, dbTxn, pool, closed, last, ins, thr>>

\* Largest row id the store may hold.
MaxId == 2

\* Calls each concurrent caller makes.
MaxCalls == 2

Impls == {"pymlops", "db"}
Columns == {"id", "name", "age"}
Ids == 1..MaxId
Names == {"a"}
Ages == {1, 2}
NULL == <<>>

----------------------------------------------------------------------------
(* Python helpers *)

RECURSIVE SetToSeq(_)
SetToSeq(S) ==
  IF S = {} THEN <<>>
  ELSE LET x == CHOOSE y \in S : TRUE IN <<x>> \o SetToSeq(S \ {x})

\* for key, value in kwargs.items(): conditions.append(getattr(t.c, key) == value)
Conditions(kwargs) ==
  LET keys == SetToSeq(DOMAIN kwargs)
  IN [i \in 1..Len(keys) |-> <<keys[i], kwargs[keys[i]]>>]

\* getattr(t.c, key) raises AttributeError for a key that is no column
KnownKeys(keys) == keys \subseteq Columns

\* One equality test of the WHERE clause on one row (NULL equals nothing).
Holds(cond, row) == row[cond[1]] = <<cond[2]>>

\* and_(*conditions): the conjunction; and_() of nothing leaves no WHERE clause
RECURSIVE and_(_, _)
and_(conds, row) ==
  IF conds = <<>> THEN TRUE
  ELSE Holds(Head(conds), row) /\ and_(Tail(conds), row)

PrepareUnfilteredMutant(data) == data

\* t.insert().values(
\*   **{key: value for key, value in data.items() if key in t.c})
prepare_insertion(data) == [k \in (DOMAIN data) \cap Columns |-> data[k]]

----------------------------------------------------------------------------
(* The store as one connection sees it.  A context cx carries the         *)
(* committed rows (table), the rows as self.connection sees them (work),  *)
(* SQLAlchemy's transaction object (saTxn), sqlite's own transaction      *)
(* (dbTxn), what the running call has done so far, and the exception in   *)
(* flight (exc).                                                          *)

CheckOk(row) == row["age"] = NULL \/ row["age"][1] >= 1

RowIds(rows) == {r["id"][1] : r \in rows}

MaxRowId(rows) ==
  IF rows = {} THEN 0
  ELSE CHOOSE i \in RowIds(rows) : \A j \in RowIds(rows) : j <= i

\* rows in rowid order, the order of a table scan
RECURSIVE SeqById(_)
SeqById(rows) ==
  IF rows = {} THEN <<>>
  ELSE LET m == CHOOSE r \in rows : \A q \in rows : r["id"][1] <= q["id"][1]
       IN <<m>> \o SeqById(rows \ {m})

\* a ResultRow: the requested columns, in the order requested
Project(row, cols) == [i \in 1..Len(cols) |-> row[cols[i]]]

MatchingAnyMutant(rows, conds) ==
  {r \in rows : conds = <<>> \/ \E i \in 1..Len(conds) : Holds(conds[i], r)}

MatchingNothingWhenEmptyMutant(rows, conds) ==
  IF conds = <<>> THEN {} ELSE {r \in rows : and_(conds, r)}

\* the rows a WHERE clause selects
Matching(rows, conds) == {r \in rows : and_(conds, r)}

\* the row an INSERT builds: given columns, a fresh rowid, NULL elsewhere
NewRow(rows, values) ==
  [c \in Columns |->
     IF c \in DOMAIN values THEN <<values[c]>>
     ELSE IF c = "id" THEN <<MaxRowId(rows) + 1>>
     ELSE NULL]

\* the row an UPDATE leaves: the columns of data replaced
SetCols(row, data) ==
  [c \in Columns |-> IF c \in DOMAIN data THEN <<data[c]>> ELSE row[c]]

Raise(cx, e) == [cx EXCEPT !.exc = e]

\* Every Connection.execute autobegins SQLAlchemy's transaction.
Autobegin(cx) == [cx EXCEPT !.saTxn = TRUE, !.via = @ \cup {"connection"}]

\* pysqlite opens sqlite's transaction before INSERT/UPDATE/DELETE
ImplicitBegin(cx) == [cx EXCEPT !.dbTxn = TRUE]

\* text("BEGIN EXCLUSIVE"): sqlite refuses a transaction within a transaction
ExecBeginExclusive(cx0) ==
  LET cx == Autobegin(cx0)
  IN IF cx.dbTxn THEN Raise(cx, "OperationalError")
     ELSE [cx EXCEPT !.dbTxn = TRUE, !.begins = @ + 1]

\* a value for a name that is no column does not compile
ExecInsert(cx0, values) ==
  LET cx  == ImplicitBegin(Autobegin(cx0))
      row == NewRow(cx.work, values)
  IN IF ~(DOMAIN values \subseteq Columns) THEN Raise(cx0, "CompileError")
     ELSE IF row["id"][1] \in RowIds(cx.work) \/ ~CheckOk(row)
       THEN Raise(cx, "IntegrityError")
       ELSE [cx EXCEPT !.work = @ \cup {row}, !.rowid = row["id"][1],
                       !.hasRows = FALSE]

ExecUpdate(cx0, data, conds) ==
  LET cx  == ImplicitBegin(Autobegin(cx0))
      hit == Matching(cx.work, conds)
      new == {SetCols(r, data) : r \in hit}
  IN IF ~(DOMAIN data \subseteq Columns) THEN Raise(cx0, "CompileError")
     ELSE IF \E r \in new : ~CheckOk(r)
       THEN Raise(cx, "IntegrityError")
       ELSE [cx EXCEPT !.work = (@ \ hit) \cup new, !.hasRows = FALSE]

ExecDelete(cx0, conds) ==
  LET cx == ImplicitBegin(Autobegin(cx0))
  IN [cx EXCEPT !.work = @ \ Matching(@, conds), !.hasRows = FALSE]

\* a SELECT of no column is a syntax error for the store
ExecSelect(cx0, cols, conds) ==
  LET cx  == Autobegin(cx0)
      all == SeqById(Matching(cx.work, conds))
  IN IF cols = <<>> THEN Raise(cx, "OperationalError")
     ELSE [cx EXCEPT !.rows = [i \in 1..Len(all) |-> Project(all[i], cols)],
                     !.hasRows = TRUE]

AllCols == <<"id", "name", "age">>

\* self.connection.commit(): ends SQLAlchemy's transaction, if there is one
Commit(cx) ==
  IF cx.saTxn
    THEN [cx EXCEPT !.table = cx.work, !.saTxn = FALSE, !.dbTxn = FALSE,
                    !.commits = @ + 1]
    ELSE [cx EXCEPT !.commits = @ + 1]

RollbackKeepsMutant(cx) ==
  [cx EXCEPT !.saTxn = FALSE, !.dbTxn = FALSE, !.rollbacks = @ + 1]

\* self.connection.rollback(): the uncommitted changes are gone
Rollback(cx) ==
  IF cx.saTxn
    THEN [cx EXCEPT !.work = cx.table, !.saTxn = FALSE, !.dbTxn = FALSE,
                    !.rollbacks = @ + 1]
    ELSE [cx EXCEPT !.rollbacks = @ + 1]

\* self.connection.begin(): refused once a transaction was begun or autobegun
Begin(cx) ==
  IF cx.saTxn THEN Raise(cx, "InvalidRequestError")
  ELSE [cx EXCEPT !.saTxn = TRUE, !.begins = @ + 1,
                  !.via = @ \cup {"connection"}]

\* print("Caught", e, file=sys.stderr): the handler has caught the exception
Log(cx) == [cx EXCEPT !.exc = "none", !.logged = @ + 1]

\* the same line where sys was never imported
LogNoSys(cx) == Raise(cx, "NameError")

----------------------------------------------------------------------------
(* Return values *)

None == [kind |-> "None", v |-> <<>>]
Tuple(t) == [kind |-> "tuple", v |-> t]
RowList(rs) == [kind |-> "rows", v |-> rs]
IntVal(i) == [kind |-> "int", v |-> <<i>>]
Result == [kind |-> "result", v |-> <<>>]

Return(cx, v) == [cx EXCEPT !.val = v]

Ok(cx) == cx.exc = "none"

FetchOneUncheckedMutant(cx) ==
  IF cx.rows = <<>> THEN Raise(cx, "TypeError")
  ELSE Return(cx, Tuple(Head(cx.rows)))

\* r = res.fetchone(); return tuple(r) if r else None
FetchOneOrNone(cx) ==
  IF cx.rows = <<>> THEN Return(cx, None) ELSE Return(cx, Tuple(Head(cx.rows)))

\* return tuple(res.fetchone()): tuple(None) is a TypeError
FetchOneTuple(cx) ==
  IF cx.rows = <<>> THEN Raise(cx, "TypeError")
  ELSE Return(cx, Tuple(Head(cx.rows)))

\* res.fetchall(): a result that returns no rows has closed itself
fetchall(cx) ==
  IF cx.hasRows THEN Return(cx, RowList(cx.rows))
  ELSE Raise(cx, "ResourceClosedError")

----------------------------------------------------------------------------
(* The methods of DBInterface, as functions of the context *)

\* the raw statements the model passes to query()
SqlSelect == "SELECT * FROM users"
SqlDelete == "DELETE FROM users"
SqlCreate == "CREATE INDEX IF NOT EXISTS ix ON users (name)"
Sqls == {SqlSelect, SqlDelete, SqlCreate}

\* self.connection.execute(text(sql)); DDL changes no row and begins nothing
ExecText(cx, sql) ==
  CASE sql = SqlSelect -> ExecSelect(cx, AllCols, <<>>)
    [] sql = SqlDelete -> ExecDelete(cx, <<>>)
    [] OTHER -> [Autobegin(cx) EXCEPT !.hasRows = FALSE]

\* "result and hasattr(result, 'fetchall')": a CursorResult defines neither
\* __bool__ nor __len__ and always has fetchall
ResultGuard(cx) == TRUE

query(cx, sql) ==
  LET e == ExecText(cx, sql)
  IN IF ~Ok(e) THEN e
     ELSE IF ResultGuard(e) THEN fetchall(e) ELSE Return(e, None)

insert_row(cx, data) ==
  LET e == ExecInsert(cx, prepare_insertion(data))
  IN IF ~Ok(e) THEN e
     ELSE LET c == Commit(e) IN Return(c, IntVal(c.rowid))

\* the atomic branch of pymlops/db/interface.py
AtomicExclusive(cx, data, conds) ==
  LET b == ExecBeginExclusive(cx)
      e == IF Ok(b) THEN ExecUpdate(b, data, conds) ELSE b
      c == IF Ok(e) THEN Commit(e) ELSE e
  IN IF Ok(c) THEN c ELSE Rollback(Log(c))

\* the atomic branch of db/interface.py: begin() stands before the try, and
\* the handler's print names sys, which the module does not import
AtomicBegin(cx, data, conds) ==
  LET b == Begin(cx)
      e == ExecUpdate(b, data, conds)
      c == IF Ok(e) THEN Commit(e) ELSE e
  IN IF ~Ok(b) THEN b
     ELSE IF Ok(c) THEN c ELSE LogNoSys(c)

NonAtomic(cx, data, conds) ==
  LET e == ExecUpdate(cx, data, conds)
  IN IF Ok(e) THEN Commit(e) ELSE e

update_row(im, cx, data, atomic, kwargs) ==
  IF ~KnownKeys(DOMAIN kwargs) THEN Raise(cx, "AttributeError")
  ELSE LET conds == Conditions(kwargs)
           r == IF atomic
                  THEN IF im = "pymlops" THEN AtomicExclusive(cx, data, conds)
                       ELSE AtomicBegin(cx, data, conds)
                  ELSE NonAtomic(cx, data, conds)
       IN IF Ok(r) THEN Return(r, None) ELSE r

aselect(cx, col_name, fetch_one, kwargs) ==
  IF ~KnownKeys(DOMAIN kwargs \cup {col_name}) THEN Raise(cx, "AttributeError")
  ELSE LET e == ExecSelect(cx, <<col_name>>, Conditions(kwargs))
       IN IF ~Ok(e) THEN e
          ELSE IF fetch_one THEN FetchOneOrNone(e) ELSE fetchall(e)

aselectn(cx, col_names, fetch_one, kwargs) ==
  IF ~KnownKeys(DOMAIN kwargs \cup {col_names[i] : i \in 1..Len(col_names)})
    THEN Raise(cx, "AttributeError")
  ELSE LET e == ExecSelect(cx, col_names, Conditions(kwargs))
       IN IF ~Ok(e) THEN e
          ELSE IF fetch_one THEN FetchOneTuple(e) ELSE fetchall(e)

select_all(cx) == LET e == ExecSelect(cx, AllCols, <<>>)
                  IN IF Ok(e) THEN fetchall(e) ELSE e

remove(cx, column_name, column_value) ==
  IF ~KnownKeys({column_name}) THEN Raise(cx, "AttributeError")
  ELSE LET e == ExecDelete(cx, <<(<<column_name, column_value>>)>>)
       IN IF Ok(e) THEN Return(Commit(e), None) ELSE e

\* db/interface.py returns the result object, pymlops/db/interface.py nothing
removen(im, cx, kwargs) ==
  IF ~KnownKeys(DOMAIN kwargs) THEN Raise(cx, "AttributeError")
  ELSE LET e == ExecDelete(cx, Conditions(kwargs))
       IN IF ~Ok(e) THEN e
          ELSE Return(Commit(e), IF im = "db" THEN Result ELSE None)

\* Table(table, MetaData(), autoload_with=self.engine): the reflection asks
\* the engine for a connection, self.connection being checked out already,
\* and hands it back to the pool when done
ReflectNoReuseMutant(p) == [created |-> p.created + 1, idle |-> p.idle + 1]

Reflect(p) ==
  IF p.idle > 0 THEN p ELSE [created |-> p.created + 1, idle |-> 1]

----------------------------------------------------------------------------
(* Inputs *)

Opt(S) == {<<>>} \cup S

\* row data for insert_row; zip is a key the table has no column for
InsertData ==
  {n @@ a @@ z : n \in Opt({[name |-> x] : x \in Names}),
                 a \in Opt({[age |-> x] : x \in Ages \cup {0}}),
                 z \in Opt({[zip |-> 9]})}

\* row data for update_row; age 0 violates the CHECK constraint
UpdateData == {[age |-> 2], [age |-> 0], [name |-> "a"]}

\* keyword filters
Filters ==
  {<<>>, [name |-> "a"], [age |-> 1], [name |-> "a", age |-> 1], [zip |-> 9]}
    \cup {[id |-> i] : i \in Ids}

ColNames == {"name", "zip"}
ColLists == {<<>>, <<"name">>, <<"age">>, <<"age", "name">>}

----------------------------------------------------------------------------
(* One caller: a method call is one step, and the caller takes the result *)
(* before it calls again.                                                  *)

NoThreads == <<>>

NoIns == [id |-> 0, data |-> <<>>]

Call(op) ==
  [op |-> op, data |-> <<>>, kwargs |-> <<>>, cols |-> <<>>, col |-> "",
   atomic |-> FALSE, fetch_one |-> FALSE, sql |-> ""]

\* no call is waiting for the caller to take its result
Idle ==
  Call("") @@
    [outcome |-> "returned", exc |-> "none", val |-> None,
     begins |-> 0, commits |-> 0, rollbacks |-> 0, logged |-> 0,
     via |-> {}, refl |-> {}, after |-> NoIns, pre |-> {}]

\* the context a call starts from
Start ==
  [table |-> table, work |-> work, saTxn |-> saTxn, dbTxn |-> dbTxn,
   begins |-> 0, commits |-> 0, rollbacks |-> 0, logged |-> 0,
   exc |-> "none", rows |-> <<>>, rowid |-> 0, hasRows |-> FALSE,
   via |-> {}, val |-> None]

\* what a finished call leaves: the store, and the record of the call
Finish(call, r, reflects) ==
  /\ ~closed
  /\ last = Idle
  /\ table' = r.table
  /\ work' = r.work
  /\ saTxn' = r.saTxn
  /\ dbTxn' = r.dbTxn
  /\ pool' = IF reflects THEN Reflect(pool) ELSE pool
  /\ last' = call @@
       [outcome |-> IF Ok(r) THEN "returned" ELSE "raised",
        exc |-> r.exc, val |-> IF Ok(r) THEN r.val ELSE None,
        begins |-> r.begins, commits |-> r.commits,
        rollbacks |-> r.rollbacks, logged |-> r.logged,
        via |-> r.via, refl |-> IF reflects THEN {"engine"} ELSE {},
        after |-> IF call.op = "aselectn" THEN ins ELSE NoIns,
        pre |-> work]
  /\ UNCHANGED <<impl, closed, thr>>

\* __init__: one engine, one connection checked out of its pool
Init ==
  /\ impl \in Impls
  /\ table = {}
  /\ work = {}
  /\ saTxn = FALSE
  /\ dbTxn = FALSE
  /\ pool = [created |-> 1, idle |-> 0]
  /\ closed = FALSE
  /\ last = Idle
  /\ ins = NoIns
  /\ thr = NoThreads

InsertRow ==
  \E d \in InsertData :
    LET r == insert_row(Start, d)
    IN /\ MaxRowId(work) < MaxId
       /\ Finish([Call("insert_row") EXCEPT !.data = d], r, TRUE)
       /\ ins' = IF Ok(r) THEN [id |-> r.rowid, data |-> d]
                 ELSE NoIns

UpdateRow ==
  \E d \in UpdateData, at \in BOOLEAN, kw \in Filters :
    /\ Finish([Call("update_row") EXCEPT !.data = d, !.atomic = at,
                                         !.kwargs = kw],
              update_row(impl, Start, d, at, kw), TRUE)
    /\ ins' = NoIns

Aselect ==
  \E c \in ColNames, f \in BOOLEAN, kw \in Filters :
    /\ Finish([Call("aselect") EXCEPT !.col = c, !.fetch_one = f,
                                      !.kwargs = kw],
              aselect(Start, c, f, kw), TRUE)
    /\ ins' = NoIns

Aselectn ==
  \E cs \in ColLists, f \in BOOLEAN, kw \in Filters :
    /\ Finish([Call("aselectn") EXCEPT !.cols = cs, !.fetch_one = f,
                                       !.kwargs = kw],
              aselectn(Start, cs, f, kw), TRUE)
    /\ ins' = NoIns

SelectAll ==
  /\ Finish(Call("select_all"), select_all(Start), TRUE)
  /\ ins' = NoIns

Remove ==
  \E kw \in {[name |-> "a"], [id |-> 1]} :
    LET c == CHOOSE k \in DOMAIN kw : TRUE
    IN /\ Finish([Call("remove") EXCEPT !.kwargs = kw],
                 remove(Start, c, kw[c]), TRUE)
       /\ ins' = NoIns

Removen ==
  \E kw \in Filters :
    /\ Finish([Call("removen") EXCEPT !.kwargs = kw],
              removen(impl, Start, kw), TRUE)
    /\ ins' = NoIns

Query ==
  \E sql \in Sqls :
    /\ Finish([Call("query") EXCEPT !.sql = sql], query(Start, sql), FALSE)
    /\ ins' = NoIns

\* the caller has the value, or the exception, of the call it made
Taken ==
  /\ last # Idle
  /\ last' = Idle
  /\ UNCHANGED <<impl, table, work, saTxn, dbTxn, pool, closed, ins, thr>>

\* self.connection.close()
Close ==
  /\ ~closed
  /\ last = Idle
  /\ closed' = TRUE
  /\ UNCHANGED <<impl, table, work, saTxn, dbTxn, pool, last, ins, thr>>

Next ==
  \/ InsertRow
  \/ UpdateRow
  \/ Aselect
  \/ Aselectn
  \/ SelectAll
  \/ Remove
  \/ Removen
  \/ Query
  \/ Taken
  \/ Close

Spec == Init /\ [][Next]_vars

----------------------------------------------------------------------------
(* Properties of one caller's calls.  last holds the call just made: its   *)
(* arguments, how it ended, and the rows the connection saw before it.     *)

\* every filter of kw holds of row r, said without the query builder
AllHold(kw, r) == \A k \in DOMAIN kw : r[k] = <<kw[k]>>

Hit == {r \in last.pre : AllHold(last.kwargs, r)}

Violates(data, rows) == \E r \in rows : ~CheckOk(SetCols(r, data))

ColSet(cs) == {cs[i] : i \in 1..Len(cs)}

\* C1: an update of an existing row that violates a constraint returns
\* normally with one log line and the row unchanged when atomic, and raises
\* the store's error when not atomic.
C1_AtomicSwallowsNonAtomicRaises ==
  (/\ last.op = "update_row"
   /\ KnownKeys(DOMAIN last.kwargs)
   /\ Violates(last.data, Hit))
  => IF last.atomic
       THEN /\ last.outcome = "returned"
            /\ last.logged = 1
            /\ Hit \subseteq work
       ELSE /\ last.outcome = "raised"
            /\ last.exc = "IntegrityError"

\* C2 as claimed: after insert_row(t, d) returned an id, selecting the
\* columns that d and t share, filtered by that id, returns the values of d
\* for them, for every d; and keys of d that are no column never make
\* insert_row fail.
RoundTripCase ==
  /\ last.op = "aselectn"
  /\ last.after.id # 0
  /\ last.fetch_one
  /\ DOMAIN last.kwargs = {"id"}
  /\ last.kwargs["id"] = last.after.id
  /\ ColSet(last.cols) = DOMAIN last.after.data \cap Columns
  /\ Len(last.cols) = Cardinality(ColSet(last.cols))

RoundTripHolds ==
  /\ last.outcome = "returned"
  /\ last.val.kind = "tuple"
  /\ last.val.v = [i \in 1..Len(last.cols) |-> <<last.after.data[last.cols[i]]>>]

InsertFailsOnlyOnKnownColumns ==
  last.op = "insert_row" =>
    LET known == [k \in DOMAIN last.data \cap Columns |-> last.data[k]]
    IN IF CheckOk(NewRow(last.pre, known))
         THEN last.outcome = "returned"
         ELSE last.outcome = "raised" /\ last.exc = "IntegrityError"

C2_RoundTripEveryMapping ==
  /\ RoundTripCase => RoundTripHolds
  /\ InsertFailsOnlyOnKnownColumns

\* C2 amended: the round trip holds when d and t share at least one column;
\* keys of d that are no column never make insert_row fail.
C2_RoundTripSharedColumn ==
  /\ (RoundTripCase /\ last.cols # <<>>) => RoundTripHolds
  /\ InsertFailsOnlyOnKnownColumns

C2_Witness ==
  /\ RoundTripCase
  /\ DOMAIN last.after.data = {"name", "age", "zip"}
  /\ last.cols = <<"age", "name">>
  /\ RoundTripHolds

\* C3: removen deletes exactly the rows for which every filter holds; the
\* other rows, those matching only some filters among them, stay as they
\* were.
C3_ConjunctiveRemoven ==
  (last.op = "removen" /\ KnownKeys(DOMAIN last.kwargs))
  => /\ last.outcome = "returned"
     /\ work = last.pre \ Hit
     /\ table = work

C3_Witness ==
  /\ last.op = "removen"
  /\ DOMAIN last.kwargs = {"name", "age"}
  /\ Hit # {}
  /\ table \cap Hit = {}
  /\ \E r \in table :
       /\ r["name"] = <<last.kwargs["name"]>>
       /\ r["age"] # <<last.kwargs["age"]>>

C5_AselectFetchOne ==
  (/\ last.op = "aselect"
   /\ last.fetch_one
   /\ KnownKeys(DOMAIN last.kwargs \cup {last.col}))
  => /\ last.outcome = "returned"
     /\ IF Hit = {} THEN last.val.kind = "None"
        ELSE /\ last.val.kind = "tuple"
             /\ \E r \in Hit : last.val.v = <<r[last.col]>>

C5_Witness ==
  /\ last.op = "aselect"
  /\ last.fetch_one
  /\ KnownKeys(DOMAIN last.kwargs \cup {last.col})
  /\ last.pre # {}
  /\ Hit = {}
  /\ last.val.kind = "None"

\* C6: an atomic update_row begins one transaction and ends it with exactly
\* one commit or one rollback, leaving no transaction open.
C6_TransactionDiscipline ==
  (/\ last.op = "update_row"
   /\ last.atomic
   /\ KnownKeys(DOMAIN last.kwargs))
  => /\ last.begins = 1
     /\ last.commits + last.rollbacks = 1
     /\ ~saTxn
     /\ ~dbTxn

\* C7: query returns nothing for a statement without a result set and all
\* rows for one with a result set, and raises in neither case.
C7_QueryNoResultSet ==
  last.op = "query"
  => /\ last.outcome = "returned"
     /\ IF last.sql = SqlSelect
          THEN /\ last.val.kind = "rows"
               /\ Len(last.val.v) = Cardinality(last.pre)
          ELSE last.val.kind = "None"

Reflecting ==
  {"insert_row", "update_row", "aselect", "aselectn", "select_all",
   "remove", "removen"}

C10_AselectnNoMatch ==
  (/\ last.op = "aselectn"
   /\ last.fetch_one
   /\ last.cols # <<>>
   /\ KnownKeys(DOMAIN last.kwargs \cup ColSet(last.cols))
   /\ Hit = {})
  => /\ last.outcome = "returned"
     /\ last.val.kind = "None"

----------------------------------------------------------------------------
(* Two callers on one instance of pymlops/db/interface.py, no lock: each   *)
(* runs update_row(users, data, atomic=True, id=<its own row>), and the    *)
(* calls of the two interleave between the calls on self.connection.       *)

Callers == {1, 2}

ConcData == {[age |-> 2], [age |-> 1], [age |-> 0]}

ConcRows == {[id |-> <<c>>, name |-> <<"a">>, age |-> <<1>>] : c \in Callers}

RowOf(rows, c) == CHOOSE r \in rows : r["id"] = <<c>>

IdleCaller ==
  [pc |-> "idle", calls |-> 0, data |-> <<>>, before |-> <<>>,
   pending |-> FALSE, fate |-> "none", by |-> 0,
   outcome |-> "none", logged |-> 0]

InitConc ==
  /\ impl = "pymlops"
  /\ table = ConcRows
  /\ work = ConcRows
  /\ saTxn = FALSE
  /\ dbTxn = FALSE
  /\ pool = [created |-> 1, idle |-> 0]
  /\ closed = FALSE
  /\ last = Idle
  /\ ins = NoIns
  /\ thr = [c \in Callers |-> IdleCaller]

\* a commit or rollback ends the transaction for every statement it holds
Ended(t, who, how) ==
  [x \in Callers |->
     IF t[x].pending
       THEN [t[x] EXCEPT !.pending = FALSE, !.fate = how, !.by = who]
       ELSE t[x]]

Shared(r) ==
  /\ table' = r.table
  /\ work' = r.work
  /\ saTxn' = r.saTxn
  /\ dbTxn' = r.dbTxn
  /\ UNCHANGED <<impl, closed, last, ins>>

\* the call starts: reflection, conditions, statement
ConcCall(c) ==
  \E d \in ConcData :
    /\ thr[c].pc = "idle"
    /\ thr[c].calls < MaxCalls
    /\ thr' = [thr EXCEPT ![c] =
                 [IdleCaller EXCEPT !.pc = "begin", !.calls = thr[c].calls + 1,
                                    !.data = d,
                                    !.before = RowOf(table, c)]]
    /\ pool' = Reflect(pool)
    /\ UNCHANGED <<impl, table, work, saTxn, dbTxn, closed, last, ins>>

\* self.connection.execute(text("BEGIN EXCLUSIVE"))
ConcBegin(c) ==
  LET r == ExecBeginExclusive(Start)
  IN /\ thr[c].pc = "begin"
     /\ Shared(r)
     /\ thr' = [thr EXCEPT ![c].pc = IF Ok(r) THEN "execute" ELSE "except"]
     /\ UNCHANGED pool

\* self.connection.execute(ps)
ConcExecute(c) ==
  LET r == ExecUpdate(Start, thr[c].data, Conditions([id |-> c]))
  IN /\ thr[c].pc = "execute"
     /\ Shared(r)
     /\ thr' = [thr EXCEPT ![c].pc = IF Ok(r) THEN "commit" ELSE "except",
                           ![c].pending = Ok(r)]
     /\ UNCHANGED pool

\* self.connection.commit(), and the call returns
ConcCommit(c) ==
  LET r == Commit(Start)
      t == IF saTxn THEN Ended(thr, c, "commit") ELSE thr
  IN /\ thr[c].pc = "commit"
     /\ Shared(r)
     /\ thr' = [t EXCEPT ![c].pc = "returned", ![c].outcome = "returned"]
     /\ UNCHANGED pool

\* except Exception: print(...); self.connection.rollback(), and the call
\* returns
ConcExcept(c) ==
  LET r == Rollback(Log(Start))
      t == IF saTxn THEN Ended(thr, c, "rollback") ELSE thr
  IN /\ thr[c].pc = "except"
     /\ Shared(r)
     /\ thr' = [t EXCEPT ![c].pc = "returned", ![c].outcome = "returned",
                         ![c].logged = 1]
     /\ UNCHANGED pool

\* the caller goes on
ConcTaken(c) ==
  /\ thr[c].pc = "returned"
  /\ thr' = [thr EXCEPT ![c].pc = "idle"]
  /\ UNCHANGED <<impl, table, work, saTxn, dbTxn, pool, closed, last, ins>>

NextConc ==
  \E c \in Callers :
    \/ ConcCall(c)
    \/ ConcBegin(c)
    \/ ConcExecute(c)
    \/ ConcCommit(c)
    \/ ConcExcept(c)
    \/ ConcTaken(c)

SpecConc == InitConc /\ [][NextConc]_vars

\* C9: callers that share the instance are not isolated.  When another
\* caller's rollback ended the transaction that held this caller's
\* statement, this caller's call still returns normally, with nothing
\* logged, and its row is as it was before the call: the update is lost.
\* When another caller's commit ended it, the row is committed with this
\* caller's data although this caller had not committed.
EndedByOther(c, how) ==
  /\ thr[c].pc = "returned"
  /\ thr[c].fate = how
  /\ thr[c].by # c

C9_NotIsolated ==
  \A c \in Callers :
    /\ EndedByOther(c, "rollback")
       => /\ thr[c].outcome = "returned"
          /\ thr[c].logged = 0
          /\ RowOf(table, c) = thr[c].before
    /\ EndedByOther(c, "commit")
       => RowOf(table, c) = SetCols(thr[c].before, thr[c].data)

C9_Witness ==
  \E c \in Callers :
    /\ EndedByOther(c, "rollback")
    /\ thr[c].logged = 0
    /\ SetCols(thr[c].before, thr[c].data) # thr[c].before
    /\ RowOf(table, c) = thr[c].before

====
